---------------------------- MODULE Spec2Model ----------------------------
(***************************************************************************)
(* Album poster maker: the line-wrapping primitive (helpers.js) and the    *)
(* two template renderers (posterTemplate1.js in its two variants,         *)
(* posterTemplate2.js), modelled as state machines.                        *)
(*                                                                         *)
(* Numbers.  The JavaScript code computes with doubles.  Here every length *)
(* is a fixed-point integer counting 1/PX pixels, and a multiplication by  *)
(* a decimal literal (0.95, 1.04, 0.84, 0.97, 0.85, ...) is the integer    *)
(* product by its fraction, rounded down (MulDiv).                         *)
(*                                                                         *)
(* Strings.  A string is a sequence of one-character strings, so that      *)
(* split(' '), trim() and toUpperCase() are computed rather than assumed.  *)
(* undefined is the distinguished value Undefined.                         *)
(*                                                                         *)
(* Text metrics.  ctx.measureText is the browser's; it is modelled as the  *)
(* sum of per-glyph advances (in 1/EM em) times the size of the font that  *)
(* is active on the context, i.e. proportional to the font size.           *)
(***************************************************************************)
EXTENDS Integers, Sequences, FiniteSets, TLC

VARIABLES
    \* ---- wrapLines called on its own (SpecWrap)
    wText,          \* the text handed to wrapLines
    wMaxWidth,      \* the maxWidth handed to wrapLines
    wFont,          \* the font active on the context during the call
    wLines,         \* the returned lines
    wpc,            \* "idle" | "ready" | "returned"
    \* ---- one render pass of a template's img.onload handler (Spec)
    tmpl,           \* "A" (posterTemplate1), "A2" (its second variant), "B"
    album,          \* the album record
    canvas,         \* [width, height] in whole pixels
    pc,             \* position inside the onload handler
    trackFontSize,  \* let trackFontSize
    lineHeight,     \* let lineHeight
    columnWidth,    \* let columnWidth
    currentTitleFontSize, \* let currentTitleFontSize
    ctxFont,        \* ctx.font
    ctxAlign,       \* ctx.textAlign
    texts,          \* the fillText calls so far, in order
    fitChecks,      \* checks performed by the tracklist while(true) loop
    fitShrinks,     \* shrink steps performed by the tracklist loop
    titleShrinks,   \* iterations of the title while loop
    lastCheck,      \* what the last tracklist fit check saw
    fitHist,        \* what each tracklist fit check saw, in order
    lastDraw,       \* what the tracklist draw pass wrapped with, and how many lines
    thrown,         \* "none", or the error the handler raised
    coverDrawn,     \* ctx.drawImage calls that drew the album cover
    wrapCalls,      \* calls of wrapLines made by the handler
    \* ---- extractColorsFromImage called on its own (SpecPalette)
    palOutcome,     \* what colorThief.getPalette(image, 6) does
    palColors,      \* the value extractColorsFromImage returned
    palThrown,      \* "none", or the error extractColorsFromImage raised
    palPc,          \* "idle" | "ready" | "returned" | "threw"
    \* ---- the page script main.js (SpecMain)
    lastAlbum,      \* let lastAlbum
    lastOpts,       \* let lastOpts
    fetches,        \* the /search requests in flight
    loads,          \* the cover image loads in flight, each with its onload handler
    preview,        \* what the posterPreview canvas shows
    exports,        \* the export jobs of downloadPosterAsPDF, in order
    frames,         \* requestAnimationFrame callbacks not yet run
    issued          \* user actions so far

wrapVars == <<wText, wMaxWidth, wFont, wLines, wpc>>
renderVars == <<tmpl, album, canvas, pc, trackFontSize, lineHeight, columnWidth,
                currentTitleFontSize, ctxFont, ctxAlign, texts,
                fitChecks, fitShrinks, titleShrinks, lastCheck, fitHist, lastDraw,
                thrown, coverDrawn, wrapCalls>>
paletteVars == <<palOutcome, palColors, palThrown, palPc>>
mainVars == <<lastAlbum, lastOpts, fetches, loads, preview, exports, frames, issued>>
vars == <<wrapVars, renderVars, paletteVars, mainVars>>

-----------------------------------------------------------------------------
(* Fixed-point arithmetic *)

PX == 1000          \* one pixel, in model length units
EM == 10            \* one em, in glyph advance units

\* x * (num/den) for a decimal literal num/den, rounded down
MulDiv(x, num, den) == (x * num) \div den

\* Math.ceil(a / b) for a >= 0, b > 0
Ceil(a, b) == (a + b - 1) \div b

\* Math.floor(a / b) for a >= 0, b > 0
Floor(a, b) == a \div b

-----------------------------------------------------------------------------
(* Strings *)

Undefined == <<"undefined">>

\* undefined where an array of strings is expected (album.tracks)
UndefinedTracks == <<Undefined>>

\* String.prototype.toUpperCase on one character
UpperChar(c) ==
    CASE c = "a" -> "A"
      [] c = "w" -> "W"
      [] OTHER -> c

toUpperCase(s) == [i \in 1..Len(s) |-> UpperChar(s[i])]

RECURSIVE TrimStart(_)
TrimStart(s) ==
    IF s # <<>> /\ Head(s) = " " THEN TrimStart(Tail(s)) ELSE s

RECURSIVE TrimEnd(_)
TrimEnd(s) ==
    IF s # <<>> /\ s[Len(s)] = " " THEN TrimEnd(SubSeq(s, 1, Len(s) - 1)) ELSE s

\* String.prototype.trim
Trim(s) == TrimEnd(TrimStart(s))

\* String.prototype.split(' '): the pieces between single spaces, empty
\* pieces included ("" gives one empty piece)
RECURSIVE SplitFrom(_, _, _)
SplitFrom(s, i, cur) ==
    IF i > Len(s) THEN <<cur>>
    ELSE IF s[i] = " " THEN <<cur>> \o SplitFrom(s, i + 1, <<>>)
    ELSE SplitFrom(s, i + 1, Append(cur, s[i]))

Split(s) == SplitFrom(s, 1, <<>>)

\* the decimal digits of n >= 0, as template literals print a number
RECURSIVE NumStr(_)
NumStr(n) ==
    LET d == <<"0", "1", "2", "3", "4", "5", "6", "7", "8", "9">>[(n % 10) + 1]
    IN IF n < 10 THEN <<d>> ELSE Append(NumStr(n \div 10), d)

-----------------------------------------------------------------------------
(* Text metrics *)

\* advance of one glyph in 1/EM em: Arial-like, upper case wider than lower
GlyphAdvance(c) ==
    CASE c = " " -> 3
      [] c = "." -> 3
      [] c = "a" -> 5
      [] c = "A" -> 7
      [] c = "w" -> 7
      [] c = "W" -> 9
      [] OTHER -> 6

\* the bold 'Arial Black' face is wider than plain Arial
FaceExtra(face) == IF face = "black" THEN 1 ELSE 0

\* the advances of s[lo..hi] added up
RECURSIVE AdvanceRange(_, _, _, _)
AdvanceRange(s, face, lo, hi) ==
    IF lo > hi THEN 0
    ELSE IF lo = hi THEN GlyphAdvance(s[lo]) + FaceExtra(face)
    ELSE LET mid == (lo + hi) \div 2
         IN AdvanceRange(s, face, lo, mid) + AdvanceRange(s, face, mid + 1, hi)

Advance(s, face) == AdvanceRange(s, face, 1, Len(s))

\* ctx.measureText(s).width with `font` active on the context
measureText(font, s) == (font.size * Advance(s, font.face)) \div EM

-----------------------------------------------------------------------------
(* helpers.js: wrapLines *)

\* the comparison that closes the running line
WrapOverflowMutant(font, testLine, line, maxWidth) ==
    measureText(font, line) > maxWidth /\ line # <<>>

WrapOverflow(font, testLine, line, maxWidth) ==
    measureText(font, testLine) > maxWidth /\ line # <<>>

\* line = words[n] + ' ': the running line after the previous one was closed
StartLineMutant(word) == <<>>

StartLine(word) == word \o <<" ">>

\* the for loop over words, from index n with running `line` and `lines`
RECURSIVE wrapLoop(_, _, _, _, _, _)
wrapLoop(font, words, n, line, lines, maxWidth) ==
    IF n > Len(words)
    THEN IF Len(Trim(line)) > 0 THEN Append(lines, Trim(line)) ELSE lines
    ELSE LET testLine == line \o words[n] \o <<" ">>
         IN IF WrapOverflow(font, testLine, line, maxWidth)
            THEN wrapLoop(font, words, n + 1, StartLine(words[n]),
                          Append(lines, Trim(line)), maxWidth)
            ELSE wrapLoop(font, words, n + 1, testLine, lines, maxWidth)

wrapLines(font, text, maxWidth) ==
    wrapLoop(font, Split(text), 1, <<>>, <<>>, maxWidth)


-----------------------------------------------------------------------------
(* helpers.js: paper sizes *)

\* PAPER_MM[format], width and height in millimetres
PAPER_MM(format) ==
    CASE format = "A0" -> [w |-> 841, h |-> 1189]
      [] format = "A1" -> [w |-> 594, h |-> 841]
      [] format = "A2" -> [w |-> 420, h |-> 594]
      [] format = "A3" -> [w |-> 297, h |-> 420]
      [] format = "A5" -> [w |-> 148, h |-> 210]
      [] format = "A6" -> [w |-> 105, h |-> 148]
      [] OTHER -> [w |-> 210, h |-> 297]

\* Math.round((mm / 25.4) * dpi)
mmToPx(mm, dpi) == (mm * dpi * 20 + 254) \div 508

getCanvasSize(format, dpi, orientation) ==
    LET f == PAPER_MM(format)
        wmm == IF orientation = "portrait" THEN f.w ELSE f.h
        hmm == IF orientation = "portrait" THEN f.h ELSE f.w
    IN [width |-> mmToPx(wmm, dpi), height |-> mmToPx(hmm, dpi)]

\* main.js renderCurrent: the preview canvas
PreviewCanvas == [width |-> 600, height |-> 848]

-----------------------------------------------------------------------------
(* Geometry shared by the templates *)

REFERENCE_WIDTH == 2480

\* c * scale, where scale = canvas.width / 2480
Scaled(c, cv) ==
    LET p == c * cv.width
    IN (p \div REFERENCE_WIDTH) * PX + ((p % REFERENCE_WIDTH) * PX) \div REFERENCE_WIDTH

padding(cv) == Scaled(110, cv)
imageSize(cv) == Scaled(2250, cv)

\* canvasWidth - 2 * padding: the budget of the title and of Template 1's columns
maxTitleWidth(cv) == cv.width * PX - 2 * padding(cv)

\* JavaScript truthiness of an optional string field
Falsy(s) == s = Undefined \/ s = <<>>

\* a || b on strings
OrElse(a, b) == IF Falsy(a) THEN b ELSE a

\* album.tracks && album.tracks.length > 0
HasTracks(a) == a.tracks # UndefinedTracks /\ Len(a.tracks) > 0

Font(size, face) == [size |-> size, face |-> face]

\* the state of a fresh 2d context
DefaultFont == Font(10 * PX, "sans")

\* one fillText call: what was drawn, with which context state, anchored where
TextOp(kind, text, font, align, x, y) ==
    [kind |-> kind, text |-> text, font |-> font, align |-> align, x |-> x, y |-> y]

\* the fitted typography state
Typo(f, lh, cw) == [font |-> f, lh |-> lh, cw |-> cw]

-----------------------------------------------------------------------------
(* posterTemplate1.js (both variants): tracklist fit *)

rowsPerColumn == 5

columnGap1(cv) == Scaled(14, cv)
baseTitleFontSize1(cv) == Scaled(170, cv)
footerHeight1(cv) == Scaled(92, cv)

\* let trackFontSize = 40 * scale; lineHeight = 42 * scale; columnWidth = 660 * scale
InitTypo1(cv) == Typo(Scaled(40, cv), Scaled(42, cv), Scaled(660, cv))

\* the minimum font size of the tracklist loop: 8, and 7.9 in the second variant
TrackFloor1(t) == IF t = "A2" THEN (79 * PX) \div 10 ELSE 8 * PX

\* totalLines(fontSize, colWidth): sets ctx.font and sums the wrapped lines
RECURSIVE totalLines1(_, _, _)
totalLines1(tracks, fontSize, colWidth) ==
    IF tracks = <<>> THEN 0
    ELSE Len(wrapLines(Font(fontSize, "arial"), toUpperCase(Head(tracks)), colWidth))
         + totalLines1(Tail(tracks), fontSize, colWidth)

\* cols * columnWidth + (cols - 1) * columnGap, with cols = ceil(total / 5)
totalWidth1(total, ty, cv) ==
    LET cols == Ceil(total, rowsPerColumn)
    IN cols * ty.cw + (cols - 1) * columnGap1(cv)

\* the break condition of the while (true) loop
FitBreak1Mutant(t, total, ty, cv) ==
    totalWidth1(total, ty, cv) <= maxTitleWidth(cv) /\ ty.font < TrackFloor1(t)

FitBreak1(t, total, ty, cv) ==
    totalWidth1(total, ty, cv) <= maxTitleWidth(cv) \/ ty.font < TrackFloor1(t)

\* trackFontSize *= 0.95; lineHeight *= 1.04; columnWidth *= 0.84
Shrink1(ty) ==
    Typo(MulDiv(ty.font, 19, 20), MulDiv(ty.lh, 26, 25), MulDiv(ty.cw, 21, 25))

-----------------------------------------------------------------------------
(* posterTemplate2.js: geometry and tracklist fit *)

totalColumns == 2

columnGap2(cv) == Scaled(200, cv)
baseTitleFontSize2(cv) == Scaled(130, cv)

\* let trackFontSize = 50 * scale; lineHeight = 60 * scale; columnWidth = 680 * scale
InitTypo2(cv) == Typo(Scaled(50, cv), Scaled(60, cv), Scaled(680, cv))

TrackFloor2 == 10 * PX

\* titleY = imageY + imageSize + currentTitleFontSize * 1.2, imageY = padding
titleY2(cv, titleSize) == padding(cv) + imageSize(cv) + MulDiv(titleSize, 6, 5)

artistFontSize2(cv) == MulDiv(baseTitleFontSize2(cv), 1, 2)
artistY2(cv, titleSize) == titleY2(cv, titleSize) + artistFontSize2(cv) + Scaled(40, cv)
lineY2(cv, titleSize) == artistY2(cv, titleSize) + Scaled(60, cv)
tracksStartY2(cv, titleSize) == lineY2(cv, titleSize) + Scaled(100, cv)

\* availableHeight = CH - tracksStartY - padding
availableHeight2(cv, titleSize) ==
    cv.height * PX - tracksStartY2(cv, titleSize) - padding(cv)

\* Math.floor(availableHeight / lineHeight)
linesPerColumn2(cv, titleSize, lh) == Floor(availableHeight2(cv, titleSize), lh)

\* the label `${i + 1}. ${track}` of track i (1-based here)
Label2(i, track) == NumStr(i) \o <<".", " ">> \o track

\* the forEach that counts the wrapped lines of every numbered label
RECURSIVE totalLines2(_, _, _, _)
totalLines2(tracks, i, font, colWidth) ==
    IF i > Len(tracks) THEN 0
    ELSE Len(wrapLines(font, Label2(i, tracks[i]), colWidth))
         + totalLines2(tracks, i + 1, font, colWidth)

\* the break condition of the while (true) loop
FitBreak2(total, maxLines, ty) == total <= maxLines \/ ty.font < TrackFloor2

\* trackFontSize *= 0.95; lineHeight *= 0.97
Shrink2(ty) == Typo(MulDiv(ty.font, 19, 20), MulDiv(ty.lh, 97, 100), ty.cw)

-----------------------------------------------------------------------------
(* Title fit, both templates *)

TitleFloor == 20 * PX

\* the string the title loop measures and the title draw prints
TitleText(t, a) == IF t = "B" THEN OrElse(a.name, <<>>) ELSE toUpperCase(a.name)

baseTitleFontSize(t, cv) ==
    IF t = "B" THEN baseTitleFontSize2(cv) ELSE baseTitleFontSize1(cv)

\* the measured title width the loop compares: times 0.85 in Template 1
TitleWidth(t, a, font) ==
    IF t = "B" THEN measureText(font, TitleText(t, a))
    ELSE MulDiv(measureText(font, TitleText(t, a)), 17, 20)

\* the while condition of the title loop
TitleTooWideMutant(t, a, font, cv) ==
    TitleWidth(t, a, font) > maxTitleWidth(cv) /\ font.size >= 0

TitleTooWide(t, a, font, cv) ==
    TitleWidth(t, a, font) > maxTitleWidth(cv) /\ font.size > TitleFloor

\* currentTitleFontSize *= 0.95
ShrinkTitleMutant(size) == size

ShrinkTitle(size) == MulDiv(size, 19, 20)


-----------------------------------------------------------------------------
(* Tracklist draw passes *)

\* Template 1: the inner for loop over the wrapped lines of one track, entered
\* with the counters col and row; gives the fillText calls, the counters after,
\* and the number n of lines the loop went through
RECURSIVE placeLines1(_, _, _, _, _, _, _, _)
placeLines1(lines, li, col0, row0, font, t, cv, startY) ==
    IF li > Len(lines) THEN [ops |-> <<>>, col |-> col0, row |-> row0, n |-> 0]
    ELSE LET col == IF row0 >= rowsPerColumn THEN col0 + 1 ELSE col0
             row == IF row0 >= rowsPerColumn THEN 0 ELSE row0
             x == padding(cv) + col * (t.cw + columnGap1(cv))
             y == startY + row * t.lh
             rest == placeLines1(lines, li + 1, col, row + 1, font, t, cv, startY)
         IN [ops |-> <<TextOp("track", lines[li], font, "left", x, y)>> \o rest.ops,
             col |-> rest.col, row |-> rest.row, n |-> rest.n + 1]

\* Template 1: the outer for loop over the tracks, from track i
RECURSIVE drawTracks1(_, _, _, _, _, _, _, _)
drawTracks1(tracks, i, col0, row0, font, t, cv, startY) ==
    IF i > Len(tracks) THEN [ops |-> <<>>, n |-> 0]
    ELSE LET r == placeLines1(wrapLines(font, toUpperCase(tracks[i]), t.cw), 1,
                              col0, row0, font, t, cv, startY)
             rest == drawTracks1(tracks, i + 1, r.col, r.row, font, t, cv, startY)
         IN [ops |-> r.ops \o rest.ops, n |-> r.n + rest.n]

\* tracksStartY = imageY + imageSize + 250 * scale, imageY = padding + 380 * scale
tracksStartY1(cv) == padding(cv) + Scaled(380, cv) + imageSize(cv) + Scaled(250, cv)

\* if (column >= totalColumns) return
ColumnDroppedMutant(column) == column > totalColumns

ColumnDropped(column) == column >= totalColumns

\* Template 2: the inner forEach over the wrapped lines of one track, entered
\* with the counter currentLine; gives the fillText calls, the counter after,
\* and the number n of lines the forEach went through
RECURSIVE placeLines2(_, _, _, _, _, _, _, _)
placeLines2(lines, li, currentLine, font, t, cv, startY, lpc) ==
    IF li > Len(lines) THEN [ops |-> <<>>, currentLine |-> currentLine, n |-> 0]
    ELSE LET column == Floor(currentLine, lpc)
             row == currentLine % lpc
             x == padding(cv) + column * (t.cw + columnGap2(cv))
             y == startY + row * t.lh
         IN IF ColumnDropped(column)
            THEN LET rest == placeLines2(lines, li + 1, currentLine,
                                         font, t, cv, startY, lpc)
                 IN [rest EXCEPT !.n = @ + 1]
            ELSE LET rest == placeLines2(lines, li + 1, currentLine + 1,
                                         font, t, cv, startY, lpc)
                 IN [ops |-> <<TextOp("track", lines[li], font, "left", x, y)>>
                             \o rest.ops,
                     currentLine |-> rest.currentLine, n |-> rest.n + 1]

\* Template 2: the outer forEach over the tracks, from track i
RECURSIVE drawTracks2(_, _, _, _, _, _, _, _)
drawTracks2(tracks, i, currentLine, font, t, cv, startY, lpc) ==
    IF i > Len(tracks) THEN [ops |-> <<>>, n |-> 0]
    ELSE LET r == placeLines2(wrapLines(font, Label2(i, tracks[i]), t.cw), 1,
                              currentLine, font, t, cv, startY, lpc)
             rest == drawTracks2(tracks, i + 1, r.currentLine, font, t, cv, startY, lpc)
         IN [ops |-> r.ops \o rest.ops, n |-> r.n + rest.n]

\* Template 2: drawInfoBlock(title, value); st = [ops, infoY]
drawInfoBlock(st, title, value, ty, cv) ==
    IF Falsy(value) THEN st
    ELSE LET extraColX == cv.width * PX - padding(cv)
         IN [ops |-> st.ops \o
                     <<TextOp("info", title, Font(MulDiv(ty.font, 11, 10), "arial_bold"),
                              "right", extraColX, st.infoY),
                       TextOp("info", value, Font(ty.font, "arial"),
                              "right", extraColX, st.infoY + ty.lh)>>,
             infoY |-> st.infoY + ty.lh + 2 * ty.lh]

-----------------------------------------------------------------------------
(* String literals of the templates *)

Rep(c, n) == [i \in 1..n |-> c]

UnknownArtist == <<"U", "N", "K", "N", "O", "W", "N", " ", "A", "R", "T", "I", "S", "T">>
NoYear == <<"-", "-", "-", "-">>
NoTracksAvailable ==
    <<"N", "o", " ", "t", "r", "a", "c", "k", "s", " ",
      "a", "v", "a", "i", "l", "a", "b", "l", "e">>
ReleaseDateTitle == <<"R", "e", "l", "e", "a", "s", "e", " ", "D", "a", "t", "e">>
AlbumLengthTitle == <<"A", "l", "b", "u", "m", " ", "L", "e", "n", "g", "t", "h">>
RecordLabelTitle == <<"R", "e", "c", "o", "r", "d", " ", "L", "a", "b", "e", "l">>


-----------------------------------------------------------------------------
(* Inputs *)

MaxLen == 6          \* longest text handed to wrapLines on its own
MaxTracks == 26      \* longest tracklist
MaxWords == 8        \* most words in one track name
MaxTitleLen == 200   \* longest album title
IterCap == 250       \* no loop of the model is followed beyond this many iterations

Templates == {"A", "A2", "B"}

\* the preview canvas of renderCurrent and the export canvas of
\* downloadPosterAsPDF for lastOpts = {A4, 300 dpi, portrait}
Canvases == {PreviewCanvas, getCanvasSize("A4", 300, "portrait")}

\* n words of k letters c, single spaces between them
RECURSIVE WordsOf(_, _, _)
WordsOf(c, k, n) ==
    IF n = 0 THEN <<>>
    ELSE IF n = 1 THEN Rep(c, k)
    ELSE Rep(c, k) \o <<" ">> \o WordsOf(c, k, n - 1)

ShortName == Rep("a", 4)
TwoWords == WordsOf("a", 10, 2)
ThreeWords == WordsOf("a", 10, 3)
Unbreakable == Rep("w", 30)
DoubleSpaced == <<"a", "a", " ", " ", "a">>
ManyWords == WordsOf("a", 1, MaxWords)
LongWords == WordsOf("a", 3, MaxWords)

\* track names t1, t2, t1, ... up to n tracks
Alternate(t1, t2, n) == [i \in 1..n |-> IF i % 2 = 1 THEN t1 ELSE t2]

TrackPatterns ==
    { <<ShortName, ShortName>>, <<TwoWords, ShortName>>, <<TwoWords, TwoWords>>,
      <<Unbreakable, ShortName>>, <<DoubleSpaced, ThreeWords>>, <<ManyWords, ManyWords>>,
      <<LongWords, LongWords>> }

TrackCounts == {1, 15, 16, 20, MaxTracks}

Tracklists ==
    { Alternate(p[1], p[2], n) : p \in TrackPatterns, n \in TrackCounts }
    \cup { <<>>, UndefinedTracks }

Titles == { ShortName, Rep("a", 30), Rep("w", MaxTitleLen) }

Year1999 == <<"1", "9", "9", "9">>

FullAlbum(name, tracks) ==
    [name |-> name, artist |-> ShortName, year |-> Year1999, tracks |-> tracks,
     release_date |-> Year1999, length |-> <<"4", "2">>, label |-> ShortName]

\* albums that vary the tracklist, and albums that vary the title
TrackAlbums ==
    { FullAlbum(ShortName, t) : t \in Tracklists }
    \cup { FullAlbum(n, t) : n \in Titles,
                             t \in {Alternate(TwoWords, ShortName, MaxTracks), <<>>} }

\* albums that vary the optional fields
FieldAlbums ==
    { [name |-> ShortName, artist |-> ar, year |-> y, tracks |-> t,
       release_date |-> rd, length |-> ln, label |-> lb] :
        ar \in {ShortName, <<>>, Undefined},
        y \in {Year1999, <<>>, Undefined},
        rd \in {Year1999, Undefined},
        ln \in {<<"4", "2">>, Undefined},
        lb \in {ShortName, <<>>},
        t \in {Alternate(TwoWords, ShortName, 1), <<>>} }

Albums == TrackAlbums \cup FieldAlbums

\* the title loop run to its end from `size`: the final size and the shrink count
RECURSIVE RunTitle(_, _, _, _, _)
RunTitle(t, a, size, cv, k) ==
    IF TitleTooWide(t, a, Font(size, "black"), cv) /\ k < IterCap
    THEN RunTitle(t, a, ShrinkTitle(size), cv, k + 1)
    ELSE [size |-> size, shrinks |-> k]

\* Template 1's tracklist loop run to its end from typography t0
RECURSIVE RunFit1(_, _, _, _, _)
RunFit1(t, tracks, t0, cv, k) ==
    IF FitBreak1(t, totalLines1(tracks, t0.font, t0.cw), t0, cv) \/ k >= IterCap
    THEN [typo |-> t0, shrinks |-> k]
    ELSE RunFit1(t, tracks, Shrink1(t0), cv, k + 1)

\* Template 2's tracklist loop run to its end from typography t0
RECURSIVE RunFit2(_, _, _, _, _)
RunFit2(tracks, t0, cv, titleSize, k) ==
    IF FitBreak2(totalLines2(tracks, 1, Font(t0.font, "arial"), t0.cw),
                 linesPerColumn2(cv, titleSize, t0.lh) * totalColumns, t0)
       \/ k >= IterCap
    THEN [typo |-> t0, shrinks |-> k]
    ELSE RunFit2(tracks, Shrink2(t0), cv, titleSize, k + 1)

\* the fitted title size and tracklist typography of one render pass of
\* template t on canvas cv
FitOf(t, a, cv) ==
    LET title == RunTitle(t, a, baseTitleFontSize(t, cv), cv, 0)
        fit == IF ~HasTracks(a)
               THEN [typo |-> IF t = "B" THEN InitTypo2(cv) ELSE InitTypo1(cv),
                     shrinks |-> 0]
               ELSE IF t = "B"
               THEN RunFit2(a.tracks, InitTypo2(cv), cv, title.size, 0)
               ELSE RunFit1(t, a.tracks, InitTypo1(cv), cv, 0)
    IN [titleSize |-> title.size, titleShrinks |-> title.shrinks,
        typo |-> fit.typo, fitShrinks |-> fit.shrinks]

WrapAlphabet == {"a", "W", " "}

RECURSIVE TextsUpTo(_)
TextsUpTo(n) ==
    IF n = 0 THEN {<<>>}
    ELSE LET shorter == TextsUpTo(n - 1)
         IN shorter \cup { Append(s, c) : s \in {t \in shorter : Len(t) = n - 1},
                                          c \in WrapAlphabet }

WrapTexts == TextsUpTo(MaxLen)
WrapWidths == {0, 4 * PX, 9 * PX, 13 * PX, 16 * PX, 40 * PX}
WrapFont == Font(10 * PX, "arial")

-----------------------------------------------------------------------------
(* State machine *)

NoCheck == [total |-> 0, font |-> DefaultFont, lh |-> 0, cw |-> 0, lpc |-> 0,
            footprint |-> 0, budget |-> 0]

RenderIdle ==
    /\ tmpl = "A" /\ album = FullAlbum(ShortName, <<>>) /\ canvas = PreviewCanvas
    /\ pc = "idle"
    /\ trackFontSize = 0 /\ lineHeight = 0 /\ columnWidth = 0
    /\ currentTitleFontSize = 0
    /\ ctxFont = DefaultFont /\ ctxAlign = "start"
    /\ texts = <<>>
    /\ fitChecks = 0 /\ fitShrinks = 0 /\ titleShrinks = 0
    /\ lastCheck = NoCheck /\ fitHist = <<>> /\ lastDraw = NoCheck
    /\ thrown = "none"
    /\ coverDrawn = 0 /\ wrapCalls = 0

WrapIdle ==
    /\ wText = <<>> /\ wMaxWidth = 0 /\ wFont = WrapFont /\ wLines = <<>>
    /\ wpc = "idle"

NoColors == <<>>

PaletteIdle ==
    /\ palOutcome = [kind |-> "none"] /\ palColors = NoColors
    /\ palThrown = "none" /\ palPc = "idle"

NoAlbum == "null"
DefaultOpts == [format |-> "A4", orientation |-> "portrait", dpi |-> 300, template |-> 1]
Blank == [kind |-> "blank"]

MainIdle ==
    /\ lastAlbum = NoAlbum /\ lastOpts = DefaultOpts
    /\ fetches = {} /\ loads = {} /\ preview = Blank
    /\ exports = <<>> /\ frames = 0 /\ issued = 0

\* the template function was called and the cover image has loaded: img.onload
\* is about to run on a context in its default state
Init ==
    /\ WrapIdle /\ PaletteIdle /\ MainIdle
    /\ tmpl \in Templates /\ album \in Albums /\ canvas \in Canvases
    /\ pc = "onload"
    /\ trackFontSize = 0 /\ lineHeight = 0 /\ columnWidth = 0
    /\ currentTitleFontSize = 0
    /\ ctxFont = DefaultFont /\ ctxAlign = "start"
    /\ texts = <<>>
    /\ fitChecks = 0 /\ fitShrinks = 0 /\ titleShrinks = 0
    /\ lastCheck = NoCheck /\ fitHist = <<>> /\ lastDraw = NoCheck
    /\ thrown = "none"
    /\ coverDrawn = 0 /\ wrapCalls = 0

ty == Typo(trackFontSize, lineHeight, columnWidth)

SetTypo(t) ==
    /\ trackFontSize' = t.font
    /\ lineHeight' = t.lh
    /\ columnWidth' = t.cw

\* ctx.save() ... ctx.restore() around one fillText: the context state after
\* restore() is the state at save(), so only the log of texts changes
SavedFillText(op) ==
    /\ texts' = Append(texts, op)
    /\ UNCHANGED <<ctxFont, ctxAlign>>

\* Template 1, lines 30-51: dimensions, layout constants, typography
OnloadStart1 ==
    /\ pc = "onload" /\ tmpl \in {"A", "A2"}
    /\ SetTypo(InitTypo1(canvas))
    /\ pc' = IF HasTracks(album) THEN "fit" ELSE "year"
    /\ UNCHANGED <<wrapVars, paletteVars, mainVars, coverDrawn, wrapCalls, tmpl, album, canvas, currentTitleFontSize, ctxFont,
                   ctxAlign, texts, fitChecks, fitShrinks, titleShrinks,
                   lastCheck, fitHist, lastDraw, thrown>>

\* Template 1, lines 59-70: one iteration of the while (true) loop
FitCheck1 ==
    /\ pc = "fit" /\ tmpl \in {"A", "A2"}
    /\ fitChecks < IterCap
    /\ LET total == totalLines1(album.tracks, trackFontSize, columnWidth)
           seen == [total |-> total, font |-> Font(trackFontSize, "arial"),
                    lh |-> lineHeight, cw |-> columnWidth, lpc |-> rowsPerColumn,
                    footprint |-> totalWidth1(total, ty, canvas),
                    budget |-> maxTitleWidth(canvas)]
       IN /\ ctxFont' = Font(trackFontSize, "arial")
          /\ lastCheck' = seen
          /\ fitHist' = Append(fitHist, seen)
          /\ fitChecks' = fitChecks + 1
          /\ IF FitBreak1(tmpl, total, ty, canvas)
             THEN /\ pc' = "year"
                  /\ UNCHANGED <<trackFontSize, lineHeight, columnWidth, fitShrinks>>
             ELSE /\ SetTypo(Shrink1(ty))
                  /\ fitShrinks' = fitShrinks + 1
                  /\ pc' = "fit"
    /\ wrapCalls' = wrapCalls + Len(album.tracks)
    /\ UNCHANGED <<wrapVars, paletteVars, mainVars, coverDrawn, tmpl, album, canvas, currentTitleFontSize, ctxAlign,
                   texts, titleShrinks, lastDraw, thrown>>

\* Template 1, lines 76-99: background, top border, release year
DrawYear1 ==
    /\ pc = "year" /\ tmpl \in {"A", "A2"}
    /\ SavedFillText(TextOp("year", OrElse(album.year, NoYear),
                            Font(Scaled(85, canvas), "black"), "right",
                            canvas.width * PX - padding(canvas),
                            padding(canvas) + Scaled(100, canvas)))
    /\ pc' = "title_init"
    /\ UNCHANGED <<wrapVars, paletteVars, mainVars, coverDrawn, wrapCalls, tmpl, album, canvas, trackFontSize, lineHeight,
                   columnWidth, currentTitleFontSize, fitChecks, fitShrinks,
                   titleShrinks, lastCheck, fitHist, lastDraw, thrown>>

\* Template 2, lines 35-70: dimensions, typography, background, cover
OnloadStart2 ==
    /\ pc = "onload" /\ tmpl = "B"
    /\ SetTypo(InitTypo2(canvas))
    /\ pc' = "title_init"
    /\ coverDrawn' = coverDrawn + 1
    /\ UNCHANGED <<wrapVars, paletteVars, mainVars, wrapCalls, tmpl, album, canvas, currentTitleFontSize, ctxFont,
                   ctxAlign, texts, fitChecks, fitShrinks, titleShrinks,
                   lastCheck, fitHist, lastDraw, thrown>>

\* let currentTitleFontSize = baseTitleFontSize; ctx.font = bold title font
TitleInit ==
    /\ pc = "title_init"
    /\ currentTitleFontSize' = baseTitleFontSize(tmpl, canvas)
    /\ ctxFont' = Font(baseTitleFontSize(tmpl, canvas), "black")
    /\ pc' = "title_fit"
    /\ UNCHANGED <<wrapVars, paletteVars, mainVars, coverDrawn, wrapCalls, tmpl, album, canvas, trackFontSize, lineHeight,
                   columnWidth, ctxAlign, texts, fitChecks, fitShrinks,
                   titleShrinks, lastCheck, fitHist, lastDraw, thrown>>

\* one evaluation of the title loop's while condition, and its body
TitleFitStep ==
    /\ pc = "title_fit"
    /\ titleShrinks < IterCap
    /\ IF TitleTooWide(tmpl, album, ctxFont, canvas)
       THEN /\ currentTitleFontSize' = ShrinkTitle(currentTitleFontSize)
            /\ ctxFont' = Font(ShrinkTitle(currentTitleFontSize), "black")
            /\ titleShrinks' = titleShrinks + 1
            /\ pc' = "title_fit"
       ELSE /\ pc' = "title_draw"
            /\ UNCHANGED <<currentTitleFontSize, ctxFont, titleShrinks>>
    /\ UNCHANGED <<wrapVars, paletteVars, mainVars, coverDrawn, wrapCalls, tmpl, album, canvas, trackFontSize, lineHeight,
                   columnWidth, ctxAlign, texts, fitChecks, fitShrinks,
                   lastCheck, fitHist, lastDraw, thrown>>

\* Template 1, lines 114-127: the title, then the cover image
DrawTitle1 ==
    /\ pc = "title_draw" /\ tmpl \in {"A", "A2"}
    /\ SavedFillText(TextOp("title", toUpperCase(album.name),
                            Font(currentTitleFontSize, "black"), "left",
                            MulDiv(padding(canvas), 20, 17),
                            padding(canvas) + Scaled(255, canvas)))
    /\ pc' = "artist"
    /\ coverDrawn' = coverDrawn + 1
    /\ UNCHANGED <<wrapVars, paletteVars, mainVars, wrapCalls, tmpl, album, canvas, trackFontSize, lineHeight,
                   columnWidth, currentTitleFontSize, fitChecks, fitShrinks,
                   titleShrinks, lastCheck, fitHist, lastDraw, thrown>>

\* album.artist?.toUpperCase() in the first variant, album.artist.toUpperCase()
\* in the second: the latter throws a TypeError on undefined
ArtistThrows1(t, a) == t = "A2" /\ a.artist = Undefined

ArtistText1(a) ==
    IF a.artist = Undefined THEN UnknownArtist
    ELSE OrElse(toUpperCase(a.artist), UnknownArtist)

\* Template 1, lines 132-135: the artist name
DrawArtist1 ==
    /\ pc = "artist" /\ tmpl \in {"A", "A2"}
    /\ ctxFont' = Font(MulDiv(baseTitleFontSize1(canvas), 1, 2), "black_regular")
    /\ ctxAlign' = "right"
    /\ IF ArtistThrows1(tmpl, album)
       THEN /\ thrown' = "TypeError"
            /\ pc' = "aborted"
            /\ UNCHANGED texts
       ELSE /\ texts' = Append(texts,
                   TextOp("artist", ArtistText1(album), ctxFont', ctxAlign',
                          canvas.width * PX - padding(canvas),
                          padding(canvas) + Scaled(2780, canvas)))
            /\ pc' = "tracklist"
            /\ UNCHANGED thrown
    /\ UNCHANGED <<wrapVars, paletteVars, mainVars, coverDrawn, wrapCalls, tmpl, album, canvas, trackFontSize, lineHeight,
                   columnWidth, currentTitleFontSize, fitChecks,
                   fitShrinks, titleShrinks, lastCheck, fitHist, lastDraw>>

\* ctx.font = `${trackFontSize}px Arial, sans-serif` before the draw loop
SetTrackFontMutant(current, size) == current

SetTrackFont(current, size) == Font(size, "arial")

\* Template 1, lines 140-161: the tracklist
DrawTracklist1 ==
    /\ pc = "tracklist" /\ tmpl \in {"A", "A2"}
    /\ IF HasTracks(album)
       THEN /\ ctxFont' = SetTrackFont(ctxFont, trackFontSize)
            /\ ctxAlign' = "left"
            /\ LET d == drawTracks1(album.tracks, 1, 0, 0, ctxFont', ty, canvas,
                                    tracksStartY1(canvas))
               IN /\ texts' = texts \o d.ops
                  /\ lastDraw' = [total |-> d.n, font |-> ctxFont', lh |-> lineHeight,
                                  cw |-> columnWidth, lpc |-> rowsPerColumn,
                                  footprint |-> totalWidth1(d.n, ty, canvas),
                                  budget |-> maxTitleWidth(canvas)]
       ELSE UNCHANGED <<ctxFont, ctxAlign, texts, lastDraw>>
    /\ pc' = "footer"
    /\ wrapCalls' = IF HasTracks(album) THEN wrapCalls + Len(album.tracks) ELSE wrapCalls
    /\ UNCHANGED <<wrapVars, paletteVars, mainVars, coverDrawn, tmpl, album, canvas, trackFontSize, lineHeight,
                   columnWidth, currentTitleFontSize, fitChecks,
                   fitShrinks, titleShrinks, lastCheck, fitHist, thrown>>

\* Template 1, lines 166-173: the palette footer
DrawFooter1 ==
    /\ pc = "footer" /\ tmpl \in {"A", "A2"}
    /\ pc' = "done"
    /\ UNCHANGED <<wrapVars, paletteVars, mainVars, coverDrawn, wrapCalls, tmpl, album, canvas, trackFontSize, lineHeight,
                   columnWidth, currentTitleFontSize, ctxFont, ctxAlign,
                   texts, fitChecks, fitShrinks, titleShrinks, lastCheck, fitHist, lastDraw,
                   thrown>>


\* Template 2, lines 86-94: the title
DrawTitle2 ==
    /\ pc = "title_draw" /\ tmpl = "B"
    /\ SavedFillText(TextOp("title", OrElse(album.name, <<>>),
                            Font(currentTitleFontSize, "black"), "left",
                            padding(canvas), titleY2(canvas, currentTitleFontSize)))
    /\ pc' = "artist"
    /\ UNCHANGED <<wrapVars, paletteVars, mainVars, coverDrawn, wrapCalls, tmpl, album, canvas, trackFontSize, lineHeight,
                   columnWidth, currentTitleFontSize, fitChecks, fitShrinks,
                   titleShrinks, lastCheck, fitHist, lastDraw, thrown>>

\* Template 2, lines 98-129: the artist name, the palette squares, the divider
DrawArtist2 ==
    /\ pc = "artist" /\ tmpl = "B"
    /\ SavedFillText(TextOp("artist", OrElse(album.artist, UnknownArtist),
                            Font(artistFontSize2(canvas), "arial"), "left",
                            MulDiv(padding(canvas), 20, 17),
                            artistY2(canvas, currentTitleFontSize)))
    /\ pc' = "tracks"
    /\ UNCHANGED <<wrapVars, paletteVars, mainVars, coverDrawn, wrapCalls, tmpl, album, canvas, trackFontSize, lineHeight,
                   columnWidth, currentTitleFontSize, fitChecks, fitShrinks,
                   titleShrinks, lastCheck, fitHist, lastDraw, thrown>>

\* Template 2, lines 134-139 and 217-222: the tracks branch, or the fallback
TracksBranch2 ==
    /\ pc = "tracks" /\ tmpl = "B"
    /\ IF HasTracks(album)
       THEN /\ ctxAlign' = "left"
            /\ pc' = "fit"
            /\ UNCHANGED <<ctxFont, texts>>
       ELSE /\ ctxFont' = Font(Scaled(16, canvas), "black_regular")
            /\ texts' = Append(texts,
                   TextOp("fallback", NoTracksAvailable, ctxFont', ctxAlign,
                          padding(canvas), tracksStartY2(canvas, currentTitleFontSize)))
            /\ pc' = "done"
            /\ UNCHANGED ctxAlign
    /\ UNCHANGED <<wrapVars, paletteVars, mainVars, coverDrawn, wrapCalls, tmpl, album, canvas, trackFontSize, lineHeight,
                   columnWidth, currentTitleFontSize, fitChecks, fitShrinks,
                   titleShrinks, lastCheck, fitHist, lastDraw, thrown>>

\* Template 2, lines 142-159: one iteration of the while (true) loop
FitCheck2 ==
    /\ pc = "fit" /\ tmpl = "B"
    /\ fitChecks < IterCap
    /\ ctxFont' = Font(trackFontSize, "arial")
    /\ LET lpc == linesPerColumn2(canvas, currentTitleFontSize, lineHeight)
           maxLines == lpc * totalColumns
           total == totalLines2(album.tracks, 1, ctxFont', columnWidth)
           seen == [total |-> total, font |-> ctxFont', lh |-> lineHeight,
                    cw |-> columnWidth, lpc |-> lpc,
                    footprint |-> total, budget |-> maxLines]
       IN /\ lastCheck' = seen
          /\ fitHist' = Append(fitHist, seen)
          /\ fitChecks' = fitChecks + 1
          /\ IF FitBreak2(total, maxLines, ty)
             THEN /\ pc' = "tracklist"
                  /\ UNCHANGED <<trackFontSize, lineHeight, columnWidth, fitShrinks>>
             ELSE /\ SetTypo(Shrink2(ty))
                  /\ fitShrinks' = fitShrinks + 1
                  /\ pc' = "fit"
    /\ wrapCalls' = wrapCalls + Len(album.tracks)
    /\ UNCHANGED <<wrapVars, paletteVars, mainVars, coverDrawn, tmpl, album, canvas, currentTitleFontSize, ctxAlign,
                   texts, titleShrinks, lastDraw, thrown>>

\* Template 2, lines 162-180: the tracklist across two columns
DrawTracklist2 ==
    /\ pc = "tracklist" /\ tmpl = "B"
    /\ ctxFont' = SetTrackFont(ctxFont, trackFontSize)
    /\ LET lpc == linesPerColumn2(canvas, currentTitleFontSize, lineHeight)
           d == drawTracks2(album.tracks, 1, 0, ctxFont', ty, canvas,
                            tracksStartY2(canvas, currentTitleFontSize), lpc)
       IN /\ texts' = texts \o d.ops
          /\ lastDraw' = [total |-> d.n, font |-> ctxFont', lh |-> lineHeight,
                          cw |-> columnWidth, lpc |-> lpc,
                          footprint |-> d.n, budget |-> lpc * totalColumns]
    /\ pc' = "info"
    /\ wrapCalls' = wrapCalls + Len(album.tracks)
    /\ UNCHANGED <<wrapVars, paletteVars, mainVars, coverDrawn, tmpl, album, canvas, trackFontSize, lineHeight,
                   columnWidth, currentTitleFontSize, ctxAlign, fitChecks,
                   fitShrinks, titleShrinks, lastCheck, fitHist, thrown>>

\* Template 2, lines 183-215: release date, album length, record label
DrawInfo2 ==
    /\ pc = "info" /\ tmpl = "B"
    /\ LET s0 == [ops |-> texts,
                  infoY |-> tracksStartY2(canvas, currentTitleFontSize)]
           s1 == drawInfoBlock(s0, ReleaseDateTitle, album.release_date, ty, canvas)
           s2 == drawInfoBlock(s1, AlbumLengthTitle, album.length, ty, canvas)
           s3 == drawInfoBlock(s2, RecordLabelTitle, album.label, ty, canvas)
       IN /\ texts' = s3.ops
          /\ ctxFont' = IF s3.ops = texts THEN ctxFont ELSE Font(trackFontSize, "arial")
    /\ ctxAlign' = "right"
    /\ pc' = "done"
    /\ UNCHANGED <<wrapVars, paletteVars, mainVars, coverDrawn, wrapCalls, tmpl, album, canvas, trackFontSize, lineHeight,
                   columnWidth, currentTitleFontSize, fitChecks, fitShrinks,
                   titleShrinks, lastCheck, fitHist, lastDraw, thrown>>

Next ==
    \/ OnloadStart1
    \/ FitCheck1
    \/ DrawYear1
    \/ OnloadStart2
    \/ TitleInit
    \/ TitleFitStep
    \/ DrawTitle1
    \/ DrawArtist1
    \/ DrawTracklist1
    \/ DrawFooter1
    \/ DrawTitle2
    \/ DrawArtist2
    \/ TracksBranch2
    \/ FitCheck2
    \/ DrawTracklist2
    \/ DrawInfo2

\* one render pass: img.onload runs to its end
Spec == Init /\ [][Next]_vars

-----------------------------------------------------------------------------
(* wrapLines on its own *)

InitWrap ==
    /\ RenderIdle /\ PaletteIdle /\ MainIdle
    /\ wText \in WrapTexts /\ wMaxWidth \in WrapWidths /\ wFont = WrapFont
    /\ wLines = <<>>
    /\ wpc = "ready"

CallWrapLines ==
    /\ wpc = "ready"
    /\ wLines' = wrapLines(wFont, wText, wMaxWidth)
    /\ wpc' = "returned"
    /\ UNCHANGED <<wText, wMaxWidth, wFont, renderVars, paletteVars, mainVars>>

NextWrap == CallWrapLines

SpecWrap == InitWrap /\ [][NextWrap]_vars

-----------------------------------------------------------------------------
(* helpers.js: extractColorsFromImage on its own *)

MaxPalette == 3      \* most colours in a palette the extractor returns

\* lum = 0.2126 * r + 0.7152 * g + 0.0722 * b of an [r, g, b] triple, times 10000
lum(c) == 2126 * c[1] + 7152 * c[2] + 722 * c[3]

\* colors.sort((a, b) => lum(a) - lum(b)): c goes behind every colour that the
\* comparator does not order after it (Array.prototype.sort is stable)
RECURSIVE InsertByLum(_, _)
InsertByLum(c, sorted) ==
    IF sorted = <<>> THEN <<c>>
    ELSE IF lum(c) - lum(Head(sorted)) < 0 THEN <<c>> \o sorted
    ELSE <<Head(sorted)>> \o InsertByLum(c, Tail(sorted))

RECURSIVE SortByLum(_)
SortByLum(colors) ==
    IF colors = <<>> THEN <<>>
    ELSE InsertByLum(colors[Len(colors)], SortByLum(SubSeq(colors, 1, Len(colors) - 1)))

\* `rgb(${r},${g},${b})`
CssRgb(c) == [fmt |-> "rgb", r |-> c[1], g |-> c[2], b |-> c[3]]

\* a three-digit hex colour #vvv with every channel v
CssGray(v) == [fmt |-> "hex", r |-> v, g |-> v, b |-> v]

\* ["#000", "#333", "#666", "#999", "#ccc", "#fff"]
GrayRamp ==
    <<CssGray(0), CssGray(51), CssGray(102), CssGray(153), CssGray(204), CssGray(255)>>

PaletteColors ==
    { <<0, 0, 0>>, <<255, 255, 255>>, <<255, 0, 0>>, <<0, 255, 0>>, <<0, 0, 255>> }

Palettes == UNION { [1..n -> PaletteColors] : n \in 1..MaxPalette }

\* what colorThief.getPalette(image, 6) does: it returns a palette, it throws
\* (a tainted or undecodable image), or it returns null (no pixel to quantize)
PaletteOutcomes ==
    { [kind |-> "palette", colors |-> cs] : cs \in Palettes }
    \cup { [kind |-> "throws"], [kind |-> "null"] }

InitPalette ==
    /\ WrapIdle /\ RenderIdle /\ MainIdle
    /\ palOutcome \in PaletteOutcomes
    /\ palColors = NoColors /\ palThrown = "none"
    /\ palPc = "ready"

\* extractColorsFromImage(image)
ExtractColors ==
    /\ palPc = "ready"
    /\ CASE palOutcome.kind = "throws" ->
               \* catch { return [...] }
               /\ palColors' = GrayRamp
               /\ palPc' = "returned"
               /\ UNCHANGED palThrown
          [] palOutcome.kind = "null" ->
               \* colors.sort on null, outside the try block
               /\ palThrown' = "TypeError"
               /\ palPc' = "threw"
               /\ UNCHANGED palColors
          [] OTHER ->
               /\ palColors' = LET sorted == SortByLum(palOutcome.colors)
                                IN [i \in 1..Len(sorted) |-> CssRgb(sorted[i])]
               /\ palPc' = "returned"
               /\ UNCHANGED palThrown
    /\ UNCHANGED <<palOutcome, wrapVars, renderVars, mainVars>>

NextPalette == ExtractColors

SpecPalette == InitPalette /\ [][NextPalette]_vars

-----------------------------------------------------------------------------
(* main.js: search, preview render and PDF export.  Every handler runs to its *)
(* end on one turn of the event loop; a fetch response, an image load, an     *)
(* animation frame and a timer each arrive on a later turn, in any order.     *)
(* A template function only starts the cover image's load; its render pass is *)
(* the image's onload handler.  What a finished pass leaves on a canvas is    *)
(* determined by the album, the template and the canvas size (Spec), and is   *)
(* recorded here as that triple.                                              *)

MaxUserActions == 3  \* searches and PDF clicks followed

\* the albums the backend can answer a query with
MainAlbums == {"album1", "album2"}

\* the values of the paperFormat and templateSelect controls
UiFormats == {"A4", "A5"}
UiTemplates == {1, 2}

\* the canvas content after a completed render pass
Poster(a, t, cv) ==
    [kind |-> "poster", album |-> a, template |-> t,
     width |-> cv.width, height |-> cv.height]

NoSnapshot == [kind |-> "none"]

\* new Image() with img.onload set and img.src assigned, drawing to `target`
ImageLoad(id, target, job, a, t, cv) ==
    [id |-> id, target |-> target, job |-> job, album |-> a, template |-> t,
     size |-> cv, status |-> "pending"]

\* updateOptsFromUI() with the controls showing format f and template t
updateOptsFromUI(f, t) ==
    [format |-> f, orientation |-> "portrait", dpi |-> 300, template |-> t]

\* renderCurrent(): the preview canvas is resized (which clears it) and the
\* template function starts a load whose onload will draw lastAlbum
renderCurrent(id, a, opts) ==
    /\ preview' = Blank
    /\ loads' = loads \cup {ImageLoad(id, "preview", 0, a, opts.template, PreviewCanvas)}

InitMain ==
    /\ WrapIdle /\ RenderIdle /\ PaletteIdle
    /\ lastAlbum = NoAlbum /\ lastOpts = DefaultOpts
    /\ fetches = {} /\ loads = {} /\ preview = Blank
    /\ exports = <<>> /\ frames = 0 /\ issued = 0

\* searchAlbum() up to the await: an empty query returns, any other is fetched
StartSearch ==
    /\ issued < MaxUserActions
    /\ \E q \in MainAlbums \cup {""} :
          fetches' = IF q = "" THEN fetches
                     ELSE fetches \cup {[id |-> issued + 1, query |-> q]}
    /\ issued' = issued + 1
    /\ UNCHANGED <<lastAlbum, lastOpts, loads, preview, exports, frames,
                   wrapVars, renderVars, paletteVars>>

\* searchAlbum() after the await: the response of one request in flight
SearchResponse ==
    /\ \E f \in fetches, ok \in BOOLEAN, fmt \in UiFormats, t \in UiTemplates :
          /\ fetches' = fetches \ {f}
          /\ IF ok
             THEN /\ lastAlbum' = f.query
                  /\ lastOpts' = updateOptsFromUI(fmt, t)
                  /\ renderCurrent(f.id, lastAlbum', lastOpts')
             ELSE \* alert(...): not found, or the fetch failed
                  UNCHANGED <<lastAlbum, lastOpts, loads, preview>>
    /\ UNCHANGED <<exports, frames, issued, wrapVars, renderVars, paletteVars>>

\* click on pdfBtn: updateOptsFromUI(); renderCurrent(() => downloadPosterAsPDF())
ClickPdf ==
    /\ issued < MaxUserActions
    /\ issued' = issued + 1
    /\ \E fmt \in UiFormats, t \in UiTemplates :
          /\ lastOpts' = updateOptsFromUI(fmt, t)
          /\ IF lastAlbum = NoAlbum
             THEN UNCHANGED <<loads, preview, frames>>
             ELSE /\ renderCurrent(issued + 1, lastAlbum, lastOpts')
                  /\ frames' = frames + 1
    /\ UNCHANGED <<lastAlbum, fetches, exports, wrapVars, renderVars, paletteVars>>

\* the animation frame callback: downloadPosterAsPDF() up to setTimeout
downloadPosterAsPDF ==
    /\ frames > 0
    /\ frames' = frames - 1
    /\ IF lastAlbum = NoAlbum
       THEN UNCHANGED <<exports, loads>>
       ELSE LET cv == getCanvasSize(lastOpts.format, lastOpts.dpi, "portrait")
                job == Len(exports) + 1
            IN /\ exports' = Append(exports,
                      [album |-> lastAlbum, template |-> lastOpts.template,
                       size |-> cv, canvas |-> Blank, timer |-> TRUE,
                       snapshot |-> NoSnapshot])
               /\ loads' = loads \cup
                      {ImageLoad(job, "temp", job, lastAlbum, lastOpts.template, cv)}
    /\ UNCHANGED <<lastAlbum, lastOpts, fetches, preview, issued,
                   wrapVars, renderVars, paletteVars>>

\* img.onload of one load in flight: the template's render pass on its canvas
ImgOnload ==
    /\ \E l \in { x \in loads : x.status = "pending" } :
          /\ loads' = loads \ {l}
          /\ IF l.target = "preview"
             THEN /\ preview' = Poster(l.album, l.template, l.size)
                  /\ UNCHANGED exports
             ELSE /\ exports' = [exports EXCEPT
                        ![l.job].canvas = Poster(l.album, l.template, l.size)]
                  /\ UNCHANGED preview
    /\ UNCHANGED <<lastAlbum, lastOpts, fetches, frames, issued,
                   wrapVars, renderVars, paletteVars>>

\* the cover image of one load in flight fails to load: no handler is set for
\* it, so nothing is drawn
ImgError ==
    /\ \E l \in { x \in loads : x.status = "pending" } :
          loads' = (loads \ {l}) \cup {[l EXCEPT !.status = "failed"]}
    /\ UNCHANGED <<lastAlbum, lastOpts, fetches, preview, exports, frames, issued,
                   wrapVars, renderVars, paletteVars>>

\* the 400 ms timer of one export job: tempCanvas.toDataURL, pdf.save
ExportTimer ==
    /\ \E j \in { i \in 1..Len(exports) : exports[i].timer } :
          exports' = [exports EXCEPT ![j].timer = FALSE,
                                     ![j].snapshot = exports[j].canvas]
    /\ UNCHANGED <<lastAlbum, lastOpts, fetches, loads, preview, frames, issued,
                   wrapVars, renderVars, paletteVars>>

NextMain ==
    \/ StartSearch
    \/ SearchResponse
    \/ ClickPdf
    \/ downloadPosterAsPDF
    \/ ImgOnload
    \/ ImgError
    \/ ExportTimer

SpecMain == InitMain /\ [][NextMain]_vars


-----------------------------------------------------------------------------
(* Properties *)

\* the tracklist loop has been entered and left
FitLoopExited == fitChecks > 0 /\ pc # "fit"

\* the minimum font size the tracklist loop is documented with
ClaimedFloor(t) ==
    CASE t = "A" -> 8 * PX
      [] t = "A2" -> (79 * PX) \div 10
      [] OTHER -> 10 * PX

\* the starting typography the tracklist loop is documented with
ClaimedStart(t, cv) ==
    IF t = "B" THEN Typo(Scaled(50, cv), Scaled(60, cv), Scaled(680, cv))
    ELSE Typo(Scaled(40, cv), Scaled(42, cv), Scaled(660, cv))

\* whether the footprint a check saw fits the available region
ClaimedFits(h) ==
    IF tmpl = "B"
    THEN h.total <= 2 * (availableHeight2(canvas, currentTitleFontSize) \div h.lh)
    ELSE LET cols == Ceil(h.total, 5)
         IN cols * h.cw + (cols - 1) * Scaled(14, canvas)
                <= canvas.width * PX - 2 * Scaled(110, canvas)

\* check number i of the tracklist loop was followed by a shrink step
ShrunkAfter(i) == i < Len(fitHist) \/ pc = "fit"

\* C1: in both templates the tracklist loop shrinks after a check exactly when
\* the footprint does not fit and the font size is not below the floor (8 or
\* 7.9 in Template 1, 10 in Template 2); so when the loop is left the footprint
\* fits or the font size is below the floor, and a tracklist that fits at the
\* starting font size (capacity reached exactly included) keeps the starting
\* fontSize, lineHeight and columnWidth.
C1_ShrinkExactlyWhenNeeded ==
    /\ \A i \in 1..Len(fitHist) :
          /\ ShrunkAfter(i) <=>
                (~ClaimedFits(fitHist[i]) /\ ~(fitHist[i].font.size < ClaimedFloor(tmpl)))
          /\ i < Len(fitHist) =>
                fitHist[i + 1].font.size = (fitHist[i].font.size * 19) \div 20
    /\ fitChecks = Len(fitHist)
    /\ fitChecks > 0 => fitShrinks = fitChecks - (IF pc = "fit" THEN 0 ELSE 1)
    /\ FitLoopExited =>
          /\ ClaimedFits(lastCheck) \/ lastCheck.font.size < ClaimedFloor(tmpl)
          /\ lastCheck = fitHist[Len(fitHist)]
          /\ ty = Typo(lastCheck.font.size, lastCheck.lh, lastCheck.cw)
    /\ (fitChecks > 0 /\ ClaimedFits(fitHist[1])) =>
          /\ fitShrinks = 0
          /\ ty = ClaimedStart(tmpl, canvas)

\* C1 witness: a loop that shrank twice or more and was left because the
\* footprint fits, the font size still at or above the floor
C1_Witness ==
    /\ pc = "done" /\ fitShrinks >= 2
    /\ ClaimedFits(lastCheck)
    /\ lastCheck.font.size >= ClaimedFloor(tmpl)

\* the fillText calls of the tracklist
TrackOps == { i \in 1..Len(texts) : texts[i].kind = "track" }

\* the tracklist draw pass has run
TracklistDrawn == HasTracks(album) /\ pc \in {"footer", "info", "done"}

\* C2: the tracklist draw pass wraps every track with the fontSize and the
\* columnWidth (and in Template 2 the lineHeight and linesPerColumn) of the last
\* fit check, the context font at every tracklist fillText is that frozen track
\* font, and the draw pass goes through as many wrapped lines as the last fit
\* check counted.
C2_DrawUsesFrozenTypography ==
    TracklistDrawn =>
        /\ lastDraw.font = lastCheck.font
        /\ lastDraw.font = Font(trackFontSize, "arial")
        /\ lastDraw.cw = lastCheck.cw
        /\ lastDraw.lh = lastCheck.lh
        /\ tmpl = "B" => lastDraw.lpc = lastCheck.lpc
        /\ lastDraw.total = lastCheck.total
        /\ \A i \in TrackOps : texts[i].font = lastCheck.font

\* C2 witness: a finished pass whose fit loop shrank and whose draw pass
\* wrapped some track onto more than one line
C2_Witness ==
    /\ pc = "done" /\ HasTracks(album)
    /\ fitShrinks > 0
    /\ lastDraw.total > Len(album.tracks)
    /\ TrackOps # {}

\* the handler has returned, or has thrown
Finished == pc \in {"done", "aborted"}

\* C3: the tracklist loop and the title loop of each template end, each after
\* at most 200 iterations, whatever the tracklist (an unbreakable word wider
\* than the column included) and the canvas: neither loop is ever seen past
\* its 200th iteration, and every iteration that stays in a loop strictly
\* lowers the loop's font size, which is never negative.
C3_LoopsTerminate ==
    /\ [](fitChecks <= 200 /\ titleShrinks <= 200)
    /\ [](trackFontSize >= 0 /\ currentTitleFontSize >= 0)
    /\ [][(pc = "fit" /\ pc' = "fit") =>
              (trackFontSize' < trackFontSize /\ fitChecks' = fitChecks + 1)]_vars
    /\ [][(pc = "title_fit" /\ pc' = "title_fit") =>
              (currentTitleFontSize' < currentTitleFontSize
               /\ titleShrinks' = titleShrinks + 1)]_vars

\* C3 witness: a finished pass over a tracklist whose first track is one
\* unbreakable word wider than the column, after the fit loop has shrunk
C3_Witness ==
    /\ pc = "done" /\ HasTracks(album)
    /\ album.tracks[1] = Unbreakable
    /\ fitShrinks > 0
    /\ measureText(Font(trackFontSize, "arial"),
                   IF tmpl = "B" THEN Unbreakable ELSE toUpperCase(Unbreakable))
          > columnWidth

\* no space in the line
SingleWord(line) == \A i \in 1..Len(line) : line[i] # " "

\* the width of the widest word of a text
WidestWord(font, text) ==
    LET ws == Split(text)
        widths == { measureText(font, ws[i]) : i \in 1..Len(ws) }
    IN CHOOSE m \in widths : \A x \in widths : x <= m

\* C4: every line wrapLines returns measures at most maxWidth or is one single
\* word; so when maxWidth is at least the width of the widest word, every line
\* measures at most maxWidth.
C4_LinesWithinWidth ==
    wpc = "returned" =>
        /\ \A i \in 1..Len(wLines) :
              measureText(wFont, wLines[i]) <= wMaxWidth \/ SingleWord(wLines[i])
        /\ wMaxWidth >= WidestWord(wFont, wText) =>
              \A i \in 1..Len(wLines) : measureText(wFont, wLines[i]) <= wMaxWidth

\* C4 witness: a returned wrap of several lines, one of them a single word
\* wider than maxWidth
C4_Witness ==
    /\ wpc = "returned" /\ Len(wLines) >= 2
    /\ \E i \in 1..Len(wLines) :
          measureText(wFont, wLines[i]) > wMaxWidth /\ SingleWord(wLines[i])
    /\ \E i \in 1..Len(wLines) : ~SingleWord(wLines[i])

\* the words of a text: its non-empty pieces between spaces
RECURSIVE NonEmpty(_)
NonEmpty(ws) ==
    IF ws = <<>> THEN <<>>
    ELSE IF Head(ws) = <<>> THEN NonEmpty(Tail(ws))
    ELSE <<Head(ws)>> \o NonEmpty(Tail(ws))

WordsIn(text) == NonEmpty(Split(text))

\* the words of all lines, in line order
RECURSIVE WordsOfLines(_)
WordsOfLines(lines) ==
    IF lines = <<>> THEN <<>>
    ELSE WordsIn(Head(lines)) \o WordsOfLines(Tail(lines))

\* C5: the words of the lines wrapLines returns, taken in line order, are the
\* words of the input in their order (none dropped, duplicated, reordered or
\* split); a single word wider than maxWidth comes back as one line equal to it.
C5_WordsPreserved ==
    wpc = "returned" =>
        /\ WordsOfLines(wLines) = WordsIn(wText)
        /\ (wText # <<>> /\ SingleWord(wText) /\ measureText(wFont, wText) > wMaxWidth)
              => wLines = <<wText>>

\* C5 witness: a returned wrap that broke a text of three or more words into
\* several lines
C5_Witness ==
    /\ wpc = "returned"
    /\ Len(WordsIn(wText)) >= 3
    /\ Len(wLines) >= 2


\* the canvas of twice the width and twice the height
Doubled(cv) == [width |-> 2 * cv.width, height |-> 2 * cv.height]

\* a is twice b, up to the rounding of k fixed-point products
TwiceWithin(a, b, k) == a - 2 * b <= 2 * k + 2 /\ 2 * b - a <= 2 * k + 2

\* C6: a render of the same album on the canvas of twice the width and height
\* shrinks the tracklist and the title as many times as the render on the
\* canvas itself, so the fitted fontSize, lineHeight, columnWidth and title font
\* size are twice as large.
C6_ScaleInvariant ==
    (pc = "done" /\ canvas = PreviewCanvas) =>
        LET big == FitOf(tmpl, album, Doubled(canvas))
        IN /\ big.titleShrinks = titleShrinks
           /\ big.fitShrinks = fitShrinks
           /\ TwiceWithin(big.titleSize, currentTitleFontSize, titleShrinks)
           /\ TwiceWithin(big.typo.font, trackFontSize, fitShrinks)
           /\ TwiceWithin(big.typo.lh, lineHeight, fitShrinks)
           /\ TwiceWithin(big.typo.cw, columnWidth, fitShrinks)

\* the base size the tracklist font is documented with
ClaimedBase(t, cv) == IF t = "B" THEN Scaled(50, cv) ELSE Scaled(40, cv)

\* C7: the tracklist font size the loop freezes lies between the
\* floor (8 in Template 1, 10 in Template 2) and the base size (40 * scale in
\* Template 1, 50 * scale in Template 2).
C7_FontBetweenFloorAndBase ==
    FitLoopExited =>
        /\ trackFontSize >= (IF tmpl = "B" THEN 10 * PX ELSE 8 * PX)
        /\ trackFontSize <= ClaimedBase(tmpl, canvas)

\* C8: from one check of the tracklist loop to the next the font size does
\* not grow and the required footprint does not grow (Template 1: the width
\* of the columns needed; Template 2: the wrapped line count).
C8_FootprintNeverGrows ==
    \A i \in 1..(Len(fitHist) - 1) :
        /\ fitHist[i + 1].font.size <= fitHist[i].font.size
        /\ fitHist[i + 1].footprint <= fitHist[i].footprint

\* the title loop has been left
TitleLoopExited ==
    \/ pc \in {"title_draw", "artist", "tracks", "tracklist", "info", "footer",
               "done", "aborted"}
    \/ tmpl = "B" /\ pc = "fit"

\* base * 0.95^k
RECURSIVE Shrunk95(_, _)
Shrunk95(x, k) == IF k = 0 THEN x ELSE (Shrunk95(x, k - 1) * 19) \div 20

ClaimedTitleBase == IF tmpl = "B" THEN Scaled(130, canvas) ELSE Scaled(170, canvas)

\* the measured title fits the canvas width less two paddings at this size
ClaimedTitleFits(size) ==
    LET w == IF tmpl = "B"
             THEN measureText(Font(size, "black"), album.name)
             ELSE (measureText(Font(size, "black"), toUpperCase(album.name)) * 17) \div 20
    IN w <= canvas.width * PX - 2 * Scaled(110, canvas)

ClaimedTitleStop(size) == ClaimedTitleFits(size) \/ size <= 20 * PX

TitleOps == { i \in 1..Len(texts) : texts[i].kind = "title" }

\* C9: the title loop ends with the size base * 0.95^k for the least k at which
\* the measured title (times 0.85 and upper-cased in Template 1) fits the canvas
\* width less two paddings or the size is at most 20; a title that fits at no
\* size above the floor ends at the floor (within one step below 20) and is
\* still drawn, once, left-aligned, at that size.
C9_TitleFit ==
    TitleLoopExited =>
        /\ currentTitleFontSize = Shrunk95(ClaimedTitleBase, titleShrinks)
        /\ ClaimedTitleStop(currentTitleFontSize)
        /\ \A j \in 0..(titleShrinks - 1) : ~ClaimedTitleStop(Shrunk95(ClaimedTitleBase, j))
        /\ (~ClaimedTitleFits(currentTitleFontSize) /\ ClaimedTitleBase > 20 * PX) =>
              (currentTitleFontSize <= 20 * PX /\ currentTitleFontSize >= 19 * PX)
        /\ pc # "title_draw" =>
              /\ Cardinality(TitleOps) = 1
              /\ \A i \in TitleOps :
                    /\ texts[i].align = "left"
                    /\ texts[i].font = Font(currentTitleFontSize, "black")
                    /\ texts[i].text =
                          (IF tmpl = "B" THEN album.name ELSE toUpperCase(album.name))

\* C9 witness: the longest title on the preview canvas, shrunk to the floor
\* without fitting, and drawn
C9_Witness ==
    /\ pc = "done" /\ canvas = PreviewCanvas
    /\ Len(album.name) = MaxTitleLen
    /\ titleShrinks > 0
    /\ ~ClaimedTitleFits(currentTitleFontSize)
    /\ TitleOps # {}

\* the text of the fillText calls of one kind
TextsOfKind(kind) == { texts[i].text : i \in { j \in 1..Len(texts) : texts[j].kind = kind } }

\* C10: with any of artist, year, release date, length or label absent, every
\* template's render pass ends without raising an error and draws
\* "UNKNOWN ARTIST" for a missing artist and "----" for a missing year.
C10_MissingFieldsNeverThrow ==
    /\ thrown = "none"
    /\ pc # "aborted"
    /\ pc = "done" =>
          /\ Falsy(album.artist) => TextsOfKind("artist") = {UnknownArtist}
          /\ (tmpl # "B" /\ Falsy(album.year)) => TextsOfKind("year") = {NoYear}

\* C17: wrapLines never returns an empty line and no returned line starts or
\* ends with a space; the empty text returns the empty sequence.
C17_NoEmptyOrPaddedLine ==
    wpc = "returned" =>
        /\ \A i \in 1..Len(wLines) :
              /\ wLines[i] # <<>>
              /\ Head(wLines[i]) # " "
              /\ wLines[i][Len(wLines[i])] # " "
        /\ wText = <<>> => wLines = <<>>

\* C12: with an empty or absent tracklist no check of the tracklist loop runs
\* and wrapLines is never called; once the pass has ended the cover, the title
\* and the artist are drawn, and the tracklist region holds exactly
\* "No tracks available" in Template 2 and no text in Template 1.
C12_EmptyTracklistSkipsFit ==
    ~HasTracks(album) =>
        /\ fitChecks = 0 /\ fitShrinks = 0 /\ wrapCalls = 0
        /\ TrackOps = {}
        /\ pc \in {"done", "aborted"} =>
              /\ coverDrawn = 1
              /\ Cardinality(TitleOps) = 1
              /\ Cardinality({ i \in 1..Len(texts) : texts[i].kind = "artist" }) = 1
              /\ TextsOfKind("fallback") = (IF tmpl = "B" THEN {NoTracksAvailable} ELSE {})
              /\ { texts[i].kind : i \in 1..Len(texts) } \subseteq
                    {"year", "title", "artist", "fallback"}

\* the wrapped lines of tracks i.. in track order, each track wrapped as the
\* template draws it: upper-cased in Template 1, numbered in Template 2
RECURSIVE LinesFrom(_)
LinesFrom(i) ==
    IF i > Len(album.tracks) THEN <<>>
    ELSE wrapLines(Font(trackFontSize, "arial"),
                   IF tmpl = "B" THEN Label2(i, album.tracks[i])
                   ELSE toUpperCase(album.tracks[i]),
                   columnWidth)
         \o LinesFrom(i + 1)

\* the row capacity R of a column
ClaimedRows ==
    IF tmpl = "B"
    THEN Floor(canvas.height * PX - tracksStartY2(canvas, currentTitleFontSize)
                 - padding(canvas), lineHeight)
    ELSE 5

\* the fillText calls of the tracklist, in drawing order
TrackTexts == SelectSeq(texts, LAMBDA op : op.kind = "track")

\* the position of grid cell (column, row)
ClaimedCell(column, row) ==
    [x |-> padding(canvas) + column * (columnWidth +
                 (IF tmpl = "B" THEN Scaled(200, canvas) ELSE Scaled(14, canvas))),
     y |-> (IF tmpl = "B" THEN tracksStartY2(canvas, currentTitleFontSize)
            ELSE tracksStartY1(canvas)) + row * lineHeight]

\* C13: the k-th wrapped line (from 0, over all tracks in order) is drawn at
\* column floor(k / R), row k mod R; Template 2 draws exactly the first
\* min(totalLines, 2 * R) lines, Template 1 all of them, and no grid cell
\* receives two lines.
C13_ColumnMajorPlacement ==
    TracklistDrawn =>
        LET L == LinesFrom(1)
            R == ClaimedRows
            drawn == IF tmpl = "B" /\ Len(L) > 2 * R THEN 2 * R ELSE Len(L)
            ops == TrackTexts
        IN /\ Len(ops) = drawn
           /\ \A k \in 0..(drawn - 1) :
                 /\ ops[k + 1].text = L[k + 1]
                 /\ ops[k + 1].x = ClaimedCell(k \div R, k % R).x
                 /\ ops[k + 1].y = ClaimedCell(k \div R, k % R).y
                 /\ tmpl = "B" => k \div R < 2
           /\ \A j, k \in 1..Len(ops) :
                 (ops[j].x = ops[k].x /\ ops[j].y = ops[k].y) => j = k

\* C13 witness: a Template 2 draw pass that filled both columns and dropped the
\* lines beyond them
C13_Witness ==
    /\ TracklistDrawn /\ tmpl = "B"
    /\ Len(LinesFrom(1)) > 2 * ClaimedRows
    /\ Len(TrackTexts) = 2 * ClaimedRows

\* C16: in Template 1 the fitted lineHeight keeps the fifth tracklist row above
\* the palette footer: tracksStartY + 4 * lineHeight <= canvasHeight -
\* footerHeight - padding, on the preview canvas and on the export canvas.
C16_RowsAboveFooter ==
    (tmpl \in {"A", "A2"} /\ pc \in {"tracklist", "footer", "done"}) =>
        tracksStartY1(canvas) + 4 * lineHeight
            <= canvas.height * PX - Scaled(92, canvas) - padding(canvas)

\* the relative luminance of a returned colour, times 10000
LumOf(css) == 2126 * css.r + 7152 * css.g + 722 * css.b

\* C11: whatever the palette extractor does (returns colours, throws, returns
\* no palette), extractColorsFromImage raises nothing and returns colours in
\* non-decreasing relative luminance, the fixed grey ramp when extraction failed.
C11_PaletteNeverFails ==
    palPc # "ready" =>
        /\ palThrown = "none"
        /\ palPc = "returned"
        /\ \A i \in 1..(Len(palColors) - 1) : LumOf(palColors[i]) <= LumOf(palColors[i + 1])
        /\ palOutcome.kind \in {"throws", "null"} =>
              palColors = <<CssGray(0), CssGray(51), CssGray(102), CssGray(153),
                            CssGray(204), CssGray(255)>>

\* C14: the snapshot an export job takes of its temporary canvas is never of
\* a canvas the template's render pass has not drawn.
C14_SnapshotAfterRender ==
    \A j \in 1..Len(exports) :
        exports[j].snapshot # NoSnapshot =>
            exports[j].snapshot =
                [kind |-> "poster", album |-> exports[j].album,
                 template |-> exports[j].template,
                 width |-> exports[j].size.width, height |-> exports[j].size.height]

\* C15: once no preview image load is pending (and none failed), the preview
\* canvas shows the render of the current lastAlbum with the current
\* lastOpts.template.
C15_PreviewShowsCurrentAlbum ==
    (lastAlbum # NoAlbum /\ { l \in loads : l.target = "preview" } = {}) =>
        preview = [kind |-> "poster", album |-> lastAlbum,
                   template |-> lastOpts.template, width |-> 600, height |-> 848]

=============================================================================
